---- MODULE Spec2Model ----
(***************************************************************************)
(* A model of prompt-runner: configuration loading (config.py), prompt     *)
(* path resolution and listing (config.py) and the parsing of a Responses  *)
(* API payload (llm/openai_provider.py).                                   *)
(*                                                                         *)
(* Text is modelled as a sequence of atoms.  An atom is one lexical unit   *)
(* of a YAML document: a key at column 0 ("prompt:"), an indented key      *)
(* ("  model:"), a block sequence dash at column 0 ("-"), an unclosed flow *)
(* bracket ("[") or a plain word.  A template is a sequence of tokens; a   *)
(* token is literal text, a {{ name }} interpolation, a {{ name.attr }}    *)
(* interpolation or a malformed tag.                                       *)
(***************************************************************************)
EXTENDS Integers, Sequences, FiniteSets, TLC

\* Bounds of the model.
MaxDocLen == 3
MaxNow == 2
MaxProfileLen == 3
MaxDepth == 1
MaxItems == 2
MaxBlocks == 1
MaxResults == 1

VARIABLES
    pc,            \* position of the modelled call: "start" or "done"
    path,          \* load_prompt_config: path argument
    path_state,    \* state of the file at path: "ok", "missing", "unreadable"
    raw_yaml,      \* content of the file at path (template tokens)
    profile,       \* profile_path argument and the state of the file behind it
    environ,       \* os.environ
    now,           \* what datetime.now() returns during the call
    context,       \* result of build_template_context
    load_ret,      \* outcome of load_prompt_config
    fs,            \* the filesystem: its directories and its files
    name_arg,   \* resolve_prompt_path: prompt_name argument
    dir_arg,   \* resolve_prompt_path, list_prompts: prompts_dir argument
    resolve_ret,   \* outcome of resolve_prompt_path
    again_ret,     \* outcome of resolve_prompt_path on the path it returned
    list_ret,      \* outcome of list_prompts
    response,      \* the payload returned by the Responses API
    parse_ret,     \* outcome of OpenAIProvider._parse_response
    argv,          \* cli: the command and its options
    provider,      \* cli.run: the OpenAIProvider it constructed
    llm_ret,       \* outcome of OpenAIProvider.complete
    mailer,        \* cli._deliver_response: the EmailDeliveryProvider it constructed
    deliver_ret,   \* outcome of EmailDeliveryProvider.deliver
    trace,         \* what the command did, in order: lines echoed, files
                   \* written, backends constructed, network calls
    status         \* how the command ended: "running", "ok", or the handler
                   \* that exited, or "uncaught"

loadVars == <<path, path_state, raw_yaml, profile, environ, now, context, load_ret>>
pathVars == <<fs, name_arg, dir_arg, resolve_ret, again_ret, list_ret>>
parseVars == <<response, parse_ret>>
runVars == <<argv, provider, llm_ret, mailer, deliver_ret, trace, status>>
vars == <<pc, loadVars, pathVars, parseVars, runVars>>

----------------------------------------------------------------------------
\* Python values as produced by yaml.safe_load and used by config.py.

Null == [k |-> "null", v |-> <<>>]
StrVal(s) == [k |-> "str", v |-> s]
IntVal(a) == [k |-> "int", v |-> <<a>>]
FloatVal(a) == [k |-> "float", v |-> <<a>>]
BoolVal(a) == [k |-> "bool", v |-> <<a>>]
DateVal(a) == [k |-> "date", v |-> <<a>>]
MapVal(m) == [k |-> "map", v |-> m]
ListVal(l) == [k |-> "list", v |-> l]
EmptyMap == MapVal(<<>>)
Undefined == [k |-> "undef", v |-> <<>>]
YAMLError == [k |-> "YAMLError", v |-> <<>>]

\* bool(value)
Truthy(val) ==
    CASE val.k = "null" -> FALSE
      [] val.k = "str" -> val.v # <<>>
      [] val.k = "map" -> DOMAIN val.v # {}
      [] val.k = "list" -> Len(val.v) > 0
      [] val.k = "int" -> val.v # <<"0">>
      [] OTHER -> TRUE

\* dict.get(key, default)
Get(d, key, default) == IF key \in DOMAIN d.v THEN d.v[key] ELSE default

Range(s) == {s[i] : i \in DOMAIN s}

Min(S) == CHOOSE x \in S : \A y \in S : x <= y
Max(S) == CHOOSE x \in S : \A y \in S : x >= y

----------------------------------------------------------------------------
\* datetime.now().strftime / isoformat: the text of a clock reading.

Strftime(fmt, t) == fmt \o "@" \o ToString(t)

Clock == 1..MaxNow
DateAtoms == {Strftime("%Y-%m-%d", t) : t \in Clock}

----------------------------------------------------------------------------
\* yaml.safe_load on a text of atoms.

TopKeyAtoms == {"prompt:", "llm:", "delivery:", "name:", "system_prompt:",
                "who:", "current_date:", "profile:"}
SubKeyAtoms == {"  provider:", "  model:", "  temperature:", "  max_tokens:",
                "  enable_web_search:", "  recipients:", "  subject:"}
SeqMark == "-"
BadFlow == "["
EmptyQuoted == "''"
IntAtoms == {"5", "0"}
\* Flow sequences of plain scalars, each written as one atom.
FlowSeqs == [a \in {"[]", "[a@example.com]", "[a@example.com, b@example.com]"} |->
                CASE a = "[]" -> <<>>
                  [] a = "[a@example.com]" -> <<"a@example.com">>
                  [] a = "[a@example.com, b@example.com]" ->
                        <<"a@example.com", "b@example.com">>]

KeyName(a) ==
    CASE a = "prompt:" -> "prompt"
      [] a = "llm:" -> "llm"
      [] a = "delivery:" -> "delivery"
      [] a = "name:" -> "name"
      [] a = "system_prompt:" -> "system_prompt"
      [] a = "who:" -> "who"
      [] a = "current_date:" -> "current_date"
      [] a = "profile:" -> "profile"
      [] a = "  provider:" -> "provider"
      [] a = "  model:" -> "model"
      [] a = "  temperature:" -> "temperature"
      [] a = "  max_tokens:" -> "max_tokens"
      [] a = "  enable_web_search:" -> "enable_web_search"
      [] a = "  recipients:" -> "recipients"
      [] a = "  subject:" -> "subject"

IsScalarAtom(a) == a \notin (TopKeyAtoms \cup SubKeyAtoms \cup {SeqMark, BadFlow})

\* The indices at which a segment starts, and the atoms after the start of
\* the segment at i up to the next start.
Starts(text, marks) == {i \in 1..Len(text) : text[i] \in marks}

Rest(text, marks, i) ==
    LET later == {j \in Starts(text, marks) : j > i}
        last == IF later = {} THEN Len(text) ELSE Min(later) - 1
    IN SubSeq(text, i + 1, last)

\* One or more words on a line: a plain (or quoted) scalar.
ParseScalar(ws) ==
    IF Len(ws) = 1
    THEN CASE ws[1] = EmptyQuoted -> StrVal(<<>>)
           [] ws[1] \in IntAtoms -> IntVal(ws[1])
           [] ws[1] \in DateAtoms -> DateVal(ws[1])
           [] ws[1] \in DOMAIN FlowSeqs ->
                ListVal([i \in DOMAIN FlowSeqs[ws[1]] |-> StrVal(<<FlowSeqs[ws[1]][i]>>)])
           [] OTHER -> StrVal(ws)
    ELSE IF (Range(ws) \cap ({EmptyQuoted} \cup DOMAIN FlowSeqs)) # {} THEN YAMLError
    ELSE StrVal(ws)

\* A value that is empty or made of words only.
ParseFlat(rest) ==
    IF rest = <<>> THEN Null
    ELSE IF \A i \in 1..Len(rest) : IsScalarAtom(rest[i]) THEN ParseScalar(rest)
    ELSE YAMLError

\* A block mapping: values[i] is the value of the key at index i; a key
\* given twice keeps its last value.
MappingOf(text, starts, values) ==
    LET names == {KeyName(text[i]) : i \in starts}
        lastOf(n) == Max({i \in starts : KeyName(text[i]) = n})
    IN IF \E i \in starts : values[i].k = "YAMLError" THEN YAMLError
       ELSE MapVal([n \in names |-> values[lastOf(n)]])

\* An indented block mapping: indented keys with flat values.
ParseSubMap(text) ==
    LET starts == Starts(text, SubKeyAtoms)
    IN IF \E i \in 1..Len(text) : text[i] \in TopKeyAtoms \cup {SeqMark}
       THEN YAMLError
       ELSE MappingOf(text, starts,
                      [i \in starts |-> ParseFlat(Rest(text, SubKeyAtoms, i))])

ParseNode(rest) ==
    IF rest # <<>> /\ rest[1] \in SubKeyAtoms THEN ParseSubMap(rest)
    ELSE ParseFlat(rest)

\* A block sequence: each dash starts an item.
ParseSeq(text) ==
    LET starts == Starts(text, {SeqMark})
        nth(n) == CHOOSE i \in starts : Cardinality({j \in starts : j <= i}) = n
    IN IF \E i \in starts : ParseNode(Rest(text, {SeqMark}, i)).k = "YAMLError"
       THEN YAMLError
       ELSE ListVal([n \in 1..Cardinality(starts) |->
                    ParseNode(Rest(text, {SeqMark}, nth(n)))])

ParseValue(rest) ==
    IF rest # <<>> /\ rest[1] = SeqMark THEN ParseSeq(rest) ELSE ParseNode(rest)

\* A block mapping at column 0.
ParseTopMap(text) ==
    LET starts == Starts(text, TopKeyAtoms)
    IN MappingOf(text, starts, [i \in starts |-> ParseValue(Rest(text, TopKeyAtoms, i))])

safe_load(text) ==
    IF BadFlow \in Range(text) THEN YAMLError
    ELSE IF text = <<>> THEN Null
    ELSE IF text[1] \in TopKeyAtoms THEN ParseTopMap(text)
    ELSE IF text[1] = SeqMark THEN ParseSeq(text)
    ELSE ParseNode(text)

----------------------------------------------------------------------------
\* Paths (pathlib.Path): a sequence of components, each with the stem and
\* the suffix of its name.

Comp(stem, suffix) == [stem |-> stem, suffix |-> suffix]
RelPath(parts) == [abs |-> FALSE, parts |-> parts]
AbsPath(parts) == [abs |-> TRUE, parts |-> parts]
NoPath == [abs |-> FALSE, parts |-> <<>>]

\* Path.stem, Path.suffix
Stem(p) == IF p.parts = <<>> THEN "" ELSE p.parts[Len(p.parts)].stem
Suffix(p) == IF p.parts = <<>> THEN "" ELSE p.parts[Len(p.parts)].suffix

----------------------------------------------------------------------------
\* Outcomes of a call: a returned value or a raised exception.

Returned(value) == [kind |-> "return", msg |-> "", file |-> NoPath, value |-> value]
Raised(exc, msg, file) == [kind |-> exc, msg |-> msg, file |-> file, value |-> Null]
NotCalled == [kind |-> "none", msg |-> "", file |-> NoPath, value |-> Null]

----------------------------------------------------------------------------
\* config.py: load_yaml, build_template_context, render_template.

\* A file argument: whether it was given, the state of the file and its text.
NoFile == [given |-> FALSE, path |-> NoPath, state |-> "missing", text |-> <<>>]
File(p, state, text) == [given |-> TRUE, path |-> p, state |-> state, text |-> text]

load_yaml(f) ==
    IF f.state = "missing" THEN Raised("ConfigError", "Config file not found", f.path)
    ELSE IF f.state = "unreadable" THEN Raised("OSError", "open", f.path)
    ELSE LET data == safe_load(f.text)
         IN IF data.k = "YAMLError" THEN Raised("ConfigError", "Invalid YAML", f.path)
            ELSE Returned(IF Truthy(data) THEN data ELSE EmptyMap)

load_profile(f) == load_yaml(f)

BuiltinKeys == {"current_date", "current_time", "current_datetime",
                "current_weekday", "env", "profile"}

\* The dict literal of build_template_context.
Builtins(profile_data, env, t) ==
    [n \in BuiltinKeys |->
        CASE n = "current_date" -> StrVal(<<Strftime("%Y-%m-%d", t)>>)
          [] n = "current_time" -> StrVal(<<Strftime("%H:%M", t)>>)
          [] n = "current_datetime" -> StrVal(<<Strftime("isoformat", t)>>)
          [] n = "current_weekday" -> StrVal(<<Strftime("%A", t)>>)
          [] n = "env" -> MapVal(env)
          [] n = "profile" -> IF Truthy(profile_data) THEN profile_data ELSE EmptyMap]

\* (mutation) the profile's keys are written over the context's.
Flatten_update(ctx, profile_data) ==
    [n \in DOMAIN ctx \cup DOMAIN profile_data.v |->
        IF n \in DOMAIN profile_data.v THEN profile_data.v[n] ELSE ctx[n]]

\* The flattening loop: a profile key is bound unless the context has it.
Flatten(ctx, profile_data) ==
    [n \in DOMAIN ctx \cup DOMAIN profile_data.v |->
        IF n \in DOMAIN ctx THEN ctx[n] ELSE profile_data.v[n]]

\* profile_data is Null for None.  A truthy value that is no mapping has no
\* items().
build_template_context(profile_data, env, t) ==
    LET ctx == Builtins(profile_data, env, t)
    IN IF ~Truthy(profile_data) THEN Returned(ctx)
       ELSE IF profile_data.k # "map" THEN Raised("AttributeError", "items", NoPath)
       ELSE Returned(Flatten(ctx, profile_data))

\* Template tokens.
Lit(a) == [t |-> "lit", v |-> a, a |-> ""]
Var(n) == [t |-> "var", v |-> n, a |-> ""]
Attr(n, a) == [t |-> "attr", v |-> n, a |-> a]
BadTag == [t |-> "bad", v |-> "{%", a |-> ""]

\* str(value) as Jinja2 writes it into the output.  An undefined name is
\* written as the empty text.
ToText(val) ==
    CASE val.k = "undef" -> <<>>
      [] val.k = "null" -> <<"None">>
      [] val.k = "map" -> <<"{...}">>
      [] val.k = "list" -> <<"[...]">>
      [] OTHER -> val.v

\* Context lookup of a name, and obj.attr (attribute, then item).
Lookup(ctx, n) == IF n \in DOMAIN ctx THEN ctx[n] ELSE Undefined
GetAttr(obj, a) == IF obj.k = "map" /\ a \in DOMAIN obj.v THEN obj.v[a] ELSE Undefined

\* The token raises UndefinedError: an attribute of an undefined name.
RaisesUndefined(tok, ctx) == tok.t = "attr" /\ Lookup(ctx, tok.v).k = "undef"

Emit(tok, ctx) ==
    CASE tok.t = "lit" -> <<tok.v>>
      [] tok.t = "var" -> ToText(Lookup(ctx, tok.v))
      [] tok.t = "attr" -> ToText(GetAttr(Lookup(ctx, tok.v), tok.a))
      [] OTHER -> <<>>

RECURSIVE RenderTokens(_, _)
RenderTokens(template, ctx) ==
    IF template = <<>> THEN <<>>
    ELSE Emit(Head(template), ctx) \o RenderTokens(Tail(template), ctx)

\* from_string compiles the whole template first, so a malformed tag is
\* reported before anything is rendered.
render_template(template_str, ctx) ==
    IF \E i \in 1..Len(template_str) : template_str[i].t = "bad"
    THEN Raised("ConfigError", "Template rendering error", NoPath)
    ELSE IF \E i \in 1..Len(template_str) : RaisesUndefined(template_str[i], ctx)
    THEN Raised("ConfigError", "Template variable not defined", NoPath)
    ELSE Returned(RenderTokens(template_str, ctx))

----------------------------------------------------------------------------
\* config.py: load_prompt_config.

LLMSettings(llm_data) ==
    [provider |-> Get(llm_data, "provider", StrVal(<<"openai">>)),
     model |-> Get(llm_data, "model", StrVal(<<"gpt-4o">>)),
     temperature |-> Get(llm_data, "temperature", FloatVal("1.0")),
     max_tokens |-> Get(llm_data, "max_tokens", Null),
     enable_web_search |-> Get(llm_data, "enable_web_search", BoolVal("False"))]

DeliverySettings(delivery_data) ==
    [provider |-> Get(delivery_data, "provider", StrVal(<<"email">>)),
     recipients |-> Get(delivery_data, "recipients", ListVal(<<>>)),
     subject |-> Get(delivery_data, "subject", Null)]

PromptConfig(name, prompt, system_prompt, llm, delivery) ==
    [name |-> name, prompt |-> prompt, system_prompt |-> system_prompt,
     llm |-> llm, delivery |-> delivery]

\* Whether `"prompt" in data` can be evaluated, and its value: a key of a
\* dict, an element of a list, a substring of a str.
Iterable(data) == data.k \in {"map", "list", "str"}
HasPrompt(data) ==
    CASE data.k = "map" -> "prompt" \in DOMAIN data.v
      [] data.k = "list" ->
            \E i \in 1..Len(data.v) : data.v[i].k = "str" /\ data.v[i].v = <<"prompt">>
      [] data.k = "str" -> "prompt" \in Range(data.v)
      [] OTHER -> FALSE

\* Lines 185-221: parse the rendered text and build the PromptConfig.
FromRendered(p, rendered_yaml) ==
    LET loaded == safe_load(rendered_yaml)
        data == IF Truthy(loaded) THEN loaded ELSE EmptyMap
        llm_data == Get(data, "llm", EmptyMap)
        delivery_data == Get(data, "delivery", EmptyMap)
    IN IF loaded.k = "YAMLError" THEN Raised("ConfigError", "Invalid YAML", p)
       ELSE IF ~Iterable(data) THEN Raised("TypeError", "not iterable", p)
       ELSE IF ~HasPrompt(data)
       THEN Raised("ConfigError", "Missing required field 'prompt'", p)
       ELSE IF data.k # "map" THEN Raised("AttributeError", "get", p)
       ELSE IF llm_data.k # "map" THEN Raised("AttributeError", "get", p)
       ELSE IF delivery_data.k # "map" THEN Raised("AttributeError", "get", p)
       ELSE Returned(PromptConfig(Get(data, "name", StrVal(<<Stem(p)>>)),
                                  data.v["prompt"],
                                  Get(data, "system_prompt", Null),
                                  LLMSettings(llm_data),
                                  DeliverySettings(delivery_data)))

\* (mutation) the target file is looked at before the profile is loaded.
load_prompt_config_targetfirst(f, prof, env, t) ==
    LET profile_ret == IF prof.given THEN load_profile(prof) ELSE Returned(Null)
        ctx_ret == build_template_context(profile_ret.value, env, t)
        rendered == render_template(f.text, ctx_ret.value)
    IN IF f.state = "missing"
       THEN Raised("ConfigError", "Config file not found", f.path)
       ELSE IF f.state = "unreadable" THEN Raised("ConfigError", "Cannot read", f.path)
       ELSE IF profile_ret.kind # "return" THEN profile_ret
       ELSE IF ctx_ret.kind # "return" THEN ctx_ret
       ELSE IF rendered.kind # "return" THEN rendered
       ELSE FromRendered(f.path, rendered.value)

\* f is the file at path, prof the file at profile_path (NoFile for None).
load_prompt_config(f, prof, env, t) ==
    LET profile_ret == IF prof.given THEN load_profile(prof) ELSE Returned(Null)
        ctx_ret == build_template_context(profile_ret.value, env, t)
        rendered == render_template(f.text, ctx_ret.value)
    IN IF profile_ret.kind # "return" THEN profile_ret
       ELSE IF ctx_ret.kind # "return" THEN ctx_ret
       ELSE IF f.state = "missing"
       THEN Raised("ConfigError", "Config file not found", f.path)
       ELSE IF f.state = "unreadable" THEN Raised("ConfigError", "Cannot read", f.path)
       ELSE IF rendered.kind # "return" THEN rendered
       ELSE FromRendered(f.path, rendered.value)

----------------------------------------------------------------------------
\* The filesystem seen by find_prompts_dir, list_prompts and
\* resolve_prompt_path: the absolute paths that are directories and those
\* that are files.  The working directory is MaxDepth levels below the root.

Dot == Comp(".", "")
PromptsName == Comp("prompts", "")
Cwd == AbsPath([i \in 1..MaxDepth |-> Comp("d", "")])

\* Path(string): the "." segments of the string are dropped.
RECURSIVE DropDots(_)
DropDots(parts) ==
    IF parts = <<>> THEN <<>>
    ELSE IF Head(parts) = Dot THEN DropDots(Tail(parts))
    ELSE <<Head(parts)>> \o DropDots(Tail(parts))

PathOf(string) == [abs |-> string.abs, parts |-> DropDots(string.parts)]
\* str(path)
StrOf(p) == [abs |-> p.abs, parts |-> p.parts]

\* path / string: an absolute right operand replaces the left one.
Join(p, string) ==
    IF string.abs THEN PathOf(string)
    ELSE [abs |-> p.abs, parts |-> p.parts \o DropDots(string.parts)]

\* f"{prompt_name}{ext}": the extension is appended to the last segment.
WithExt(string, ext) ==
    LET n == Len(string.parts)
        last == string.parts[n]
    IN IF n = 0 THEN [abs |-> string.abs, parts |-> <<Comp("", ext)>>]
       ELSE [abs |-> string.abs,
             parts |-> [string.parts EXCEPT ![n] = Comp(last.stem \o last.suffix, ext)]]

Absolute(p) == IF p.abs THEN p.parts ELSE Cwd.parts \o p.parts
Exists(files, p) == Absolute(p) \in files.dirs \cup files.files
IsDir(files, p) == Absolute(p) \in files.dirs

\* Path.parents of the working directory, nearest first.
CwdParents == [i \in 1..MaxDepth |-> AbsPath(SubSeq(Cwd.parts, 1, MaxDepth - i))]

\* An optional Path argument.
None == [some |-> FALSE, p |-> NoPath]
Some(p) == [some |-> TRUE, p |-> p]

\* (mutation) the ancestors are searched from the root down.
RECURSIVE FirstPromptsDir_rootfirst(_, _)
FirstPromptsDir_rootfirst(files, parents) ==
    IF parents = <<>> THEN None
    ELSE LET n == Len(parents)
             prompts_dir == Join(parents[n], RelPath(<<PromptsName>>))
         IN IF IsDir(files, prompts_dir) THEN Some(prompts_dir)
            ELSE FirstPromptsDir_rootfirst(files, SubSeq(parents, 1, n - 1))

\* The loop of find_prompts_dir over [cwd] + list(cwd.parents).
RECURSIVE FirstPromptsDir(_, _)
FirstPromptsDir(files, parents) ==
    IF parents = <<>> THEN None
    ELSE LET prompts_dir == Join(Head(parents), RelPath(<<PromptsName>>))
         IN IF IsDir(files, prompts_dir) THEN Some(prompts_dir)
            ELSE FirstPromptsDir(files, Tail(parents))

find_prompts_dir(files) == FirstPromptsDir(files, <<Cwd>> \o CwdParents)

\* Python's order of the stems the model uses, smallest first.
StemOrder == <<"a", "a.txt", "b", "d", "prompts">>
Rank(stem) == CHOOSE i \in 1..Len(StemOrder) : StemOrder[i] = stem

\* prompts_dir.glob("*" + ext): the entries of the directory with that
\* suffix, in the directory's order (taken here largest stem first).
RECURSIVE SeqOfSet(_)
SeqOfSet(S) ==
    IF S = {} THEN <<>>
    ELSE LET x == CHOOSE y \in S : \A z \in S : Rank(Stem(AbsPath(z))) <= Rank(Stem(AbsPath(y)))
         IN <<x>> \o SeqOfSet(S \ {x})

Glob(files, dir, ext) ==
    IF ~IsDir(files, dir) THEN <<>>
    ELSE LET d == Absolute(dir)
             found == {e \in files.dirs \cup files.files :
                          /\ Len(e) = Len(d) + 1
                          /\ SubSeq(e, 1, Len(d)) = d
                          /\ e[Len(e)].suffix = ext}
         IN SeqOfSet(found)

\* sorted(xs)
RECURSIVE Sorted(_)
Sorted(xs) ==
    IF xs = <<>> THEN <<>>
    ELSE LET i == CHOOSE j \in 1..Len(xs) : \A k \in 1..Len(xs) : Rank(xs[j]) <= Rank(xs[k])
         IN <<xs[i]>> \o Sorted(SubSeq(xs, 1, i - 1) \o SubSeq(xs, i + 1, Len(xs)))

\* list(set(xs)), in some order.
RECURSIVE Distinct(_)
Distinct(xs) ==
    IF xs = <<>> THEN <<>>
    ELSE LET rest == Distinct(Tail(xs))
         IN IF Head(xs) \in Range(rest) THEN rest ELSE <<Head(xs)>> \o rest

StemsOf(entries) == [i \in 1..Len(entries) |-> entries[i][Len(entries[i])].stem]

\* (mutation) the stems are sorted but not made a set.
list_prompts_nodedup(prompts_dir, files) ==
    LET dir == IF prompts_dir.some THEN prompts_dir ELSE find_prompts_dir(files)
    IN IF ~dir.some \/ ~Exists(files, dir.p) THEN Returned(<<>>)
       ELSE Returned(Sorted(StemsOf(Glob(files, dir.p, ".yml"))
                                \o StemsOf(Glob(files, dir.p, ".yaml"))))

list_prompts(prompts_dir, files) ==
    LET dir == IF prompts_dir.some THEN prompts_dir ELSE find_prompts_dir(files)
    IN IF ~dir.some \/ ~Exists(files, dir.p) THEN Returned(<<>>)
       ELSE Returned(Sorted(Distinct(StemsOf(Glob(files, dir.p, ".yml"))
                                         \o StemsOf(Glob(files, dir.p, ".yaml")))))

\* The loop over (".yml", ".yaml") of resolve_prompt_path.
RECURSIVE FirstCandidate(_, _, _, _)
FirstCandidate(files, dir, prompt_name, exts) ==
    IF exts = <<>> THEN None
    ELSE LET candidate == Join(dir, WithExt(prompt_name, Head(exts)))
         IN IF Exists(files, candidate) THEN Some(candidate)
            ELSE FirstCandidate(files, dir, prompt_name, Tail(exts))

\* (mutation) only the suffix decides that the input is a path.
resolve_prompt_path_suffixonly(prompt_name, prompts_dir, files) ==
    LET p == PathOf(prompt_name)
        dir == IF prompts_dir.some THEN prompts_dir ELSE find_prompts_dir(files)
        found == FirstCandidate(files, dir.p, prompt_name, <<".yml", ".yaml">>)
    IN IF Suffix(p) \in {".yml", ".yaml"}
       THEN IF ~Exists(files, p) THEN Raised("ConfigError", "Prompt file not found", p)
            ELSE Returned(p)
       ELSE IF ~dir.some
       THEN Raised("ConfigError", "no prompts directory found", NoPath)
       ELSE IF found.some THEN Returned(found.p)
       ELSE Raised("ConfigError", "not found in", dir.p)

resolve_prompt_path(prompt_name, prompts_dir, files) ==
    LET p == PathOf(prompt_name)
        dir == IF prompts_dir.some THEN prompts_dir ELSE find_prompts_dir(files)
        found == FirstCandidate(files, dir.p, prompt_name, <<".yml", ".yaml">>)
    IN IF Suffix(p) \in {".yml", ".yaml"} \/ Exists(files, p)
       THEN IF ~Exists(files, p) THEN Raised("ConfigError", "Prompt file not found", p)
            ELSE Returned(p)
       ELSE IF ~dir.some
       THEN Raised("ConfigError", "no prompts directory found", NoPath)
       ELSE IF found.some THEN Returned(found.p)
       ELSE Raised("ConfigError", "not found in", dir.p)

----------------------------------------------------------------------------
\* llm/openai_provider.py: _parse_response and _parse_web_search_results.

\* An attribute an object may lack.
Missing == [has |-> FALSE, v |-> ""]
Has(v) == [has |-> TRUE, v |-> v]
MissingInt == [has |-> FALSE, v |-> 0]
\* getattr(obj, name, default)
GetAttrOr(attr, default) == IF attr.has THEN attr.v ELSE default

WebSearchResult(title, url, snippet) == [title |-> title, url |-> url, snippet |-> snippet]

\* The loop of _parse_web_search_results.
RECURSIVE ParseResults(_)
ParseResults(results) ==
    IF results = <<>> THEN <<>>
    ELSE <<WebSearchResult(GetAttrOr(Head(results).title, ""),
                           GetAttrOr(Head(results).url, ""),
                           GetAttrOr(Head(results).snippet, ""))>>
            \o ParseResults(Tail(results))

\* item.results is absent when the item has no such attribute.
parse_web_search_results(item) ==
    IF item.results.has THEN ParseResults(item.results.v) ELSE <<>>

\* (mutation) every block of a message is taken for text.
RECURSIVE MessageText_anyblock(_)
MessageText_anyblock(blocks) ==
    IF blocks = <<>> THEN <<>>
    ELSE Head(blocks).text \o MessageText_anyblock(Tail(blocks))

\* The inner loop: the output_text blocks of a message, concatenated.
RECURSIVE MessageText(_)
MessageText(blocks) ==
    IF blocks = <<>> THEN <<>>
    ELSE (IF Head(blocks).type = "output_text" THEN Head(blocks).text ELSE <<>>)
            \o MessageText(Tail(blocks))

\* The loop over response.output: what it adds to content and to
\* web_search_results.
RECURSIVE OutputContent(_)
OutputContent(output) ==
    IF output = <<>> THEN <<>>
    ELSE (IF Head(output).type = "message" THEN MessageText(Head(output).content)
          ELSE <<>>)
            \o OutputContent(Tail(output))

RECURSIVE OutputResults(_)
OutputResults(output) ==
    IF output = <<>> THEN <<>>
    ELSE (IF Head(output).type = "web_search_result"
          THEN parse_web_search_results(Head(output))
          ELSE <<>>)
            \o OutputResults(Tail(output))

\* (mutation) the counters are always reported, 0 when there are none.
ParseUsage_always(usage) ==
    [n \in {"prompt_tokens", "completion_tokens", "total_tokens"} |->
        IF usage.state # "set" THEN 0
        ELSE CASE n = "prompt_tokens" -> GetAttrOr(usage.input_tokens, 0)
               [] n = "completion_tokens" -> GetAttrOr(usage.output_tokens, 0)
               [] n = "total_tokens" -> GetAttrOr(usage.total_tokens, 0)]

\* Lines 168-174: usage.state is "absent" without the attribute, "none" for
\* None, "set" for a usage object.
ParseUsage(usage) ==
    IF usage.state # "set" THEN <<>>
    ELSE [n \in {"prompt_tokens", "completion_tokens", "total_tokens"} |->
            CASE n = "prompt_tokens" -> GetAttrOr(usage.input_tokens, 0)
              [] n = "completion_tokens" -> GetAttrOr(usage.output_tokens, 0)
              [] n = "total_tokens" -> GetAttrOr(usage.total_tokens, 0)]

LLMResponse(content, model, web_search_results, usage, raw_response) ==
    [content |-> content, model |-> model, web_search_results |-> web_search_results,
     usage |-> usage, raw_response |-> raw_response]

parse_response(resp) ==
    Returned(LLMResponse(OutputContent(resp.output), resp.model,
                         OutputResults(resp.output), ParseUsage(resp.usage), resp))

----------------------------------------------------------------------------
\* Exception classes and their bases: openai (openai_provider.py line 5),
\* smtplib and the built-ins caught in email.py, and the program's own.

Bases ==
    [c \in {"APIError", "APIConnectionError", "APITimeoutError", "APIStatusError",
            "RateLimitError", "AuthenticationError", "InternalServerError",
            "OSError", "gaierror", "SSLError", "SMTPException",
            "SMTPResponseException", "SMTPServerDisconnected",
            "SMTPRecipientsRefused", "SMTPConnectError", "SMTPAuthenticationError",
            "ConfigError", "LLMError", "LLMConfigError", "LLMAPIError",
            "LLMRateLimitError", "DeliveryError", "DeliveryConfigError",
            "DeliveryConnectionError", "DeliveryAuthError",
            "AttributeError", "TypeError", "ValueError"} |->
        CASE c = "APIConnectionError" -> {"APIError"}
          [] c = "APITimeoutError" -> {"APIConnectionError", "APIError"}
          [] c = "APIStatusError" -> {"APIError"}
          [] c \in {"RateLimitError", "AuthenticationError", "InternalServerError"} ->
                {"APIStatusError", "APIError"}
          [] c \in {"gaierror", "SSLError", "SMTPException"} -> {"OSError"}
          [] c \in {"SMTPResponseException", "SMTPServerDisconnected",
                    "SMTPRecipientsRefused"} -> {"SMTPException", "OSError"}
          [] c \in {"SMTPConnectError", "SMTPAuthenticationError"} ->
                {"SMTPResponseException", "SMTPException", "OSError"}
          [] c \in {"LLMConfigError", "LLMAPIError"} -> {"LLMError"}
          [] c = "LLMRateLimitError" -> {"LLMAPIError", "LLMError"}
          [] c \in {"DeliveryConfigError", "DeliveryConnectionError",
                    "DeliveryAuthError"} -> {"DeliveryError"}
          [] OTHER -> {}]

\* isinstance(e, cls), as an except clause tests it.
IsInstance(exc, cls) == exc = cls \/ (exc \in DOMAIN Bases /\ cls \in Bases[exc])

----------------------------------------------------------------------------
\* llm/base.py: LLMConfig, LLMProvider.validate_config, LLMAPIError.

LLMConfig(model, temperature, max_tokens, enable_web_search) ==
    [model |-> model, temperature |-> temperature, max_tokens |-> max_tokens,
     enable_web_search |-> enable_web_search, extra |-> <<>>]

\* The number an int or float of the documents stands for, in tenths.
IsNumber(val) == val.k \in {"int", "float"}
Tenths(val) ==
    CASE val.v = <<"1.0">> -> 10
      [] val.v = <<"5">> -> 50
      [] val.v = <<"0">> -> 0

\* An exception of the LLMAPIError family, with its two attributes.
LLMRaised(exc, msg, status_code, provider_name) ==
    [kind |-> exc, msg |-> msg, file |-> NoPath, value |-> Null,
     status_code |-> status_code, provider |-> provider_name]

LLMProvider_validate_config(config) ==
    IF ~Truthy(config.model)
    THEN Raised("ValueError", "Model must be specified in config", NoPath)
    ELSE IF ~IsNumber(config.temperature) THEN Raised("TypeError", "<", NoPath)
    ELSE IF Tenths(config.temperature) < 0 \/ Tenths(config.temperature) > 20
    THEN Raised("ValueError", "Temperature must be between 0 and 2", NoPath)
    ELSE IF config.max_tokens.k # "null" /\ ~IsNumber(config.max_tokens)
    THEN Raised("TypeError", "<=", NoPath)
    ELSE IF config.max_tokens.k # "null" /\ Tenths(config.max_tokens) <= 0
    THEN Raised("ValueError", "max_tokens must be positive if specified", NoPath)
    ELSE Returned(Null)

----------------------------------------------------------------------------
\* llm/openai_provider.py: __init__, _build_request_params, complete.

\* os.environ.get(name)
EnvGet(env, n) == IF n \in DOMAIN env THEN env[n] ELSE Null

\* (mutation) the client is built whatever the key is.
OpenAIProvider_nokeycheck(config, env) ==
    Returned([constructed |-> TRUE, config |-> config,
              api_key |-> EnvGet(env, "OPENAI_API_KEY")])

\* __init__ with api_key=None, as cli.run calls it.
OpenAIProvider(config, env) ==
    LET api_key == EnvGet(env, "OPENAI_API_KEY")
    IN IF ~Truthy(api_key)
       THEN LLMRaised("LLMConfigError", "OpenAI API key not provided", MissingInt, "")
       ELSE Returned([constructed |-> TRUE, config |-> config, api_key |-> api_key])

build_request_params(config, prompt, system_prompt) ==
    LET base == [model |-> config.model, input |-> prompt]
        instructions == IF Truthy(system_prompt) THEN [instructions |-> system_prompt]
                        ELSE <<>>
        temperature == IF IsNumber(config.temperature) /\ Tenths(config.temperature) = 10
                       THEN <<>> ELSE [temperature |-> config.temperature]
        max_tokens == IF config.max_tokens.k = "null" THEN <<>>
                      ELSE [max_output_tokens |-> config.max_tokens]
        tools == IF Truthy(config.enable_web_search) THEN [tools |-> StrVal(<<"web_search">>)]
                 ELSE <<>>
    IN base @@ instructions @@ temperature @@ max_tokens @@ tools

\* What the Responses API does with a request: a payload, or an exception
\* of the openai package, with the status_code attribute it has or lacks
\* (MissingInt also stands for the None that getattr defaults to).
Answered(resp) == [exc |-> "", status_code |-> MissingInt, response |-> resp]
Failed(exc, status_code) ==
    [exc |-> exc, status_code |-> status_code,
     response |-> [output |-> <<>>, usage |-> [state |-> "absent"], model |-> ""]]

\* (mutation) the generic clause comes first.
complete_genericfirst(self, prompt, system_prompt, answer) ==
    IF answer.exc = "" THEN parse_response(answer.response)
    ELSE IF IsInstance(answer.exc, "APIError")
    THEN LLMRaised("LLMAPIError", "OpenAI API error", answer.status_code, "openai")
    ELSE Raised(answer.exc, "", NoPath)

\* The try block and its except clauses, in their order.
complete(self, prompt, system_prompt, answer) ==
    IF answer.exc = "" THEN parse_response(answer.response)
    ELSE IF IsInstance(answer.exc, "RateLimitError")
    THEN LLMRaised("LLMRateLimitError", "OpenAI rate limit exceeded", Has(429), "openai")
    ELSE IF IsInstance(answer.exc, "APIConnectionError")
    THEN LLMRaised("LLMAPIError", "Failed to connect to OpenAI API", MissingInt, "openai")
    ELSE IF IsInstance(answer.exc, "APIError")
    THEN LLMRaised("LLMAPIError", "OpenAI API error", answer.status_code, "openai")
    ELSE Raised(answer.exc, "", NoPath)

----------------------------------------------------------------------------
\* delivery/base.py and delivery/email.py.

DeliveryConfig(recipients, subject) ==
    [recipients |-> recipients, subject |-> subject, extra |-> <<>>]

DeliveryResult(success, message_id, recipients_count, error) ==
    [success |-> success, message_id |-> message_id,
     recipients_count |-> recipients_count, error |-> error]

\* str.replace(old, "") on a text of characters.
Replace(chars, old) == SelectSeq(chars, LAMBDA c : c # old)

\* The length an app password must have after its spaces are removed
\* (email.py line 77).
AppPasswordLen == 16

EmailDeliveryProvider(sender, app_password, config) ==
    [constructed |-> TRUE, sender |-> sender,
     app_password |-> StrVal(Replace(app_password.v, " ")), config |-> config,
     smtp_host |-> "smtp.gmail.com", smtp_port |-> 587]

DeliveryProvider_validate_config(self) ==
    IF ~Truthy(self.config.recipients)
    THEN Raised("ValueError", "At least one recipient must be specified", NoPath)
    ELSE Returned(Null)

EmailDeliveryProvider_validate_config(self) ==
    IF DeliveryProvider_validate_config(self).kind # "return"
    THEN DeliveryProvider_validate_config(self)
    ELSE IF ~Truthy(self.sender)
    THEN Raised("ValueError", "Sender email must be specified", NoPath)
    ELSE IF ~Truthy(self.app_password)
    THEN Raised("ValueError", "App password must be specified", NoPath)
    ELSE IF Len(self.app_password.v) # AppPasswordLen
    THEN Raised("ValueError", "App password must be 16 characters", NoPath)
    ELSE Returned(Null)

\* What the SMTP server and the network do with a session: the step that
\* fails ("" when none does) and the exception it raises.
SmtpSteps == <<"SMTP", "starttls", "login", "send_message">>
SmtpOk == [failed |-> "", exc |-> ""]
SmtpFailed(step, exc) == [failed |-> step, exc |-> exc]

\* The calls deliver makes on the network, up to the one that fails.
SmtpCalls(answer) ==
    IF answer.failed = "" THEN SmtpSteps
    ELSE SubSeq(SmtpSteps, 1, CHOOSE i \in 1..Len(SmtpSteps) : SmtpSteps[i] = answer.failed)

\* The calls as the events of a run, the failing one with its exception.
SmtpTrace(answer) ==
    [i \in DOMAIN SmtpCalls(answer) |->
        [ev |-> SmtpCalls(answer)[i],
         raised |-> IF SmtpCalls(answer)[i] = answer.failed THEN answer.exc ELSE ""]]

\* (mutation) the SMTPException clause comes first.
deliver_smtpfirst(self, content, content_html, answer) ==
    IF answer.failed = ""
    THEN Returned(DeliveryResult(TRUE, Null, Len(self.config.recipients.v), Null))
    ELSE IF IsInstance(answer.exc, "SMTPException")
    THEN Raised("DeliveryError", "SMTP error", NoPath)
    ELSE IF IsInstance(answer.exc, "OSError")
    THEN Raised("DeliveryConnectionError", "Network error", NoPath)
    ELSE Raised(answer.exc, "", NoPath)

\* The try block and its except clauses, in their order.
deliver(self, content, content_html, answer) ==
    IF answer.failed = ""
    THEN Returned(DeliveryResult(TRUE, Null, Len(self.config.recipients.v), Null))
    ELSE IF IsInstance(answer.exc, "SMTPAuthenticationError")
    THEN Raised("DeliveryAuthError", "SMTP authentication failed", NoPath)
    ELSE IF IsInstance(answer.exc, "SMTPConnectError")
    THEN Raised("DeliveryConnectionError", "Failed to connect to SMTP server", NoPath)
    ELSE IF IsInstance(answer.exc, "SMTPException")
    THEN Raised("DeliveryError", "SMTP error", NoPath)
    ELSE IF IsInstance(answer.exc, "OSError")
    THEN Raised("DeliveryConnectionError", "Network error", NoPath)
    ELSE Raised(answer.exc, "", NoPath)

----------------------------------------------------------------------------
\* The inputs the specifications draw from.

ConfigPaths == {RelPath(<<Comp("prompts", ""), Comp("daily", ".yml")>>),
                RelPath(<<Comp("news", ".yaml")>>)}
DailyPath == RelPath(<<Comp("prompts", ""), Comp("daily", ".yml")>>)
ProfilePath == RelPath(<<Comp("me", ".yml")>>)

DocAtoms == {"prompt:", "llm:", "  model:", "hi", "prompt", "5", SeqMark, BadFlow,
             EmptyQuoted}
DocTokens == {Lit(a) : a \in DocAtoms}
                \cup {Var("current_date"), Var("who"), Var("nobody"),
                      Attr("nobody", "x"), BadTag}
Docs(n) == UNION {[1..m -> DocTokens] : m \in 0..n}

ProfileAtoms == {"who:", "current_date:", "profile:", "Al", SeqMark, BadFlow}
ProfileTexts(n) == UNION {[1..m -> ProfileAtoms] : m \in 0..n}

FileStates == {"ok", "missing", "unreadable"}
Environs == {<<>>, [HOME |-> StrVal(<<"/root">>)]}

\* A few documents and profiles for the runs that vary the files' states.
SampleDocs == {<<>>, <<Lit("prompt:"), Lit("hi")>>, <<Lit("prompt:"), Var("who")>>,
               <<Lit("llm:")>>, <<BadTag>>}
SampleProfiles == {NoFile}
                    \cup {File(ProfilePath, "ok", x) :
                            x \in {<<"who:", "Al">>, <<"current_date:", "Al">>,
                                   <<SeqMark, "Al">>, <<BadFlow>>}}
                    \cup {File(ProfilePath, st, <<>>) : st \in FileStates}

----------------------------------------------------------------------------
\* SpecLoad: one call of load_prompt_config.

\* The variables of the operations a specification does not run.
IdleLoad ==
    /\ path = NoPath
    /\ path_state = "missing"
    /\ raw_yaml = <<>>
    /\ profile = NoFile
    /\ environ = <<>>
    /\ now = 0
    /\ context = NotCalled
    /\ load_ret = NotCalled

IdlePath ==
    /\ fs = [dirs |-> {}, files |-> {}]
    /\ name_arg = NoPath
    /\ dir_arg = None
    /\ resolve_ret = NotCalled
    /\ again_ret = NotCalled
    /\ list_ret = NotCalled

IdleParse ==
    /\ response = [output |-> <<>>, usage |-> [state |-> "absent"], model |-> ""]
    /\ parse_ret = NotCalled

IdleRun ==
    /\ argv = [cmd |-> "none"]
    /\ provider = [constructed |-> FALSE]
    /\ mailer = [constructed |-> FALSE]
    /\ llm_ret = NotCalled
    /\ deliver_ret = NotCalled
    /\ trace = <<>>
    /\ status = "running"

InitLoad ==
    /\ pc = "start"
    /\ IdlePath
    /\ IdleParse
    /\ IdleRun
    /\ now = 0
    /\ context = NotCalled
    /\ load_ret = NotCalled
    /\ environ = <<>>
    /\ \/ /\ raw_yaml \in Docs(MaxDocLen)
          /\ path = DailyPath
          /\ path_state = "ok"
          /\ profile \in {NoFile, File(ProfilePath, "ok", <<"who:", "Al">>)}
       \/ /\ raw_yaml \in SampleDocs
          /\ path \in ConfigPaths
          /\ path_state \in FileStates
          /\ profile \in SampleProfiles

Load ==
    /\ pc = "start"
    /\ \E t \in Clock :
          /\ now' = t
          /\ load_ret' = load_prompt_config(File(path, path_state, raw_yaml),
                                            profile, environ, t)
    /\ pc' = "done"
    /\ UNCHANGED <<path, path_state, raw_yaml, profile, environ, context>>
    /\ UNCHANGED <<pathVars, parseVars, runVars>>

NextLoad == Load
SpecLoad == InitLoad /\ [][NextLoad]_vars

\* What the call went through, recomputed from its inputs.
ProfileRet == IF profile.given THEN load_profile(profile) ELSE Returned(Null)
ContextRet == build_template_context(ProfileRet.value, environ, now)
RenderRet == render_template(raw_yaml, ContextRet.value)
ReachedRender == /\ pc = "done"
                 /\ ProfileRet.kind = "return"
                 /\ ContextRet.kind = "return"
                 /\ path_state = "ok"
Parsed == safe_load(RenderRet.value)
ReachedParse == ReachedRender /\ RenderRet.kind = "return"
DocIsMapping == ReachedParse /\ Parsed.k = "map"
DocHasPromptKey == DocIsMapping /\ "prompt" \in DOMAIN Parsed.v

MissingField == Raised("ConfigError", "Missing required field 'prompt'", path)

\* C1: for every document that renders and parses to a mapping with a
\* non-empty `prompt` field, load_prompt_config returns a PromptConfig whose
\* prompt is the value of the `prompt` field of the rendered, parsed document.
C1_NonEmptyPromptLoads ==
    (DocHasPromptKey /\ Truthy(Parsed.v["prompt"]))
        => /\ load_ret.kind = "return"
           /\ load_ret.value.prompt = Parsed.v["prompt"]

\* C2: for every document whose rendered, parsed content has no `prompt` key
\* (an empty document included), load_prompt_config raises the missing-field
\* ConfigError naming `prompt` and the file.
C2_NoPromptKeyIsMissingField ==
    (ReachedParse /\ Parsed.k # "YAMLError" /\ ~DocHasPromptKey)
        => load_ret = MissingField

\* C3: a document whose `prompt` key is present with an empty rendered value
\* (empty string or null) is rejected with the missing-field error, and every
\* PromptConfig that load_prompt_config returns has a non-empty prompt.
C3_EmptyPromptRejected ==
    /\ (DocHasPromptKey /\ ~Truthy(Parsed.v["prompt"])) => load_ret = MissingField
    /\ (pc = "done" /\ load_ret.kind = "return") => Truthy(load_ret.value.prompt)

\* The template references a name the context does not bind.
UnboundNames ==
    {raw_yaml[i].v : i \in {j \in 1..Len(raw_yaml) : raw_yaml[j].t \in {"var", "attr"}}}
        \ DOMAIN ContextRet.value
WellFormed == \A i \in 1..Len(raw_yaml) : raw_yaml[i].t # "bad"

\* C4: for every (well-formed) template that references a variable with no
\* binding in the context, load_prompt_config raises the undefined-variable
\* ConfigError and returns no PromptConfig.
C4_UnboundVariableFails ==
    (ReachedRender /\ WellFormed /\ UnboundNames # {})
        => /\ load_ret.kind = "ConfigError"
           /\ load_ret.msg = "Template variable not defined"

\* The errors of the target file itself (lines 174-181).
TargetNotFound == Raised("ConfigError", "Config file not found", path)
TargetUnreadable == Raised("ConfigError", "Cannot read", path)
\* The profile was supplied and its load or the context built on it failed.
ProfileFailed == ProfileRet.kind # "return" \/ ContextRet.kind # "return"
ProfileError == IF ProfileRet.kind # "return" THEN ProfileRet ELSE ContextRet

\* C21 (as stated): the target file is read first, so when it does not exist
\* load_prompt_config fails with the target file's not-found error whatever
\* the state of the profile file.
C21_TargetReadFirst ==
    (pc = "done" /\ path_state = "missing") => load_ret = TargetNotFound

\* C21 (amended): the profile, if supplied, is loaded and the context built
\* before the target file is looked at; a failure of the profile is the
\* outcome of load_prompt_config whatever the state of the target file, and
\* the target file's not-found or read error is the outcome only when there
\* is no profile or the profile loaded.
C21_ProfileLoadedFirst ==
    pc = "done" =>
        /\ ProfileFailed => load_ret = ProfileError
        /\ (~ProfileFailed /\ path_state = "missing") => load_ret = TargetNotFound
        /\ (~ProfileFailed /\ path_state = "unreadable") => load_ret = TargetUnreadable

\* Neither file exists: the error names the profile.
C21_Witness ==
    /\ pc = "done"
    /\ path_state = "missing"
    /\ profile.given /\ profile.state = "missing"
    /\ load_ret.kind = "ConfigError"
    /\ load_ret.msg = "Config file not found"
    /\ load_ret.file = ProfilePath
    /\ path # ProfilePath

\* C22: for every rendered document that is valid YAML (a top-level mapping,
\* list or scalar; `llm` or `delivery` a mapping, null or a scalar),
\* load_prompt_config returns a PromptConfig or raises ConfigError, never
\* any other exception.
C22_LoadIsTotal ==
    (ReachedParse /\ Parsed.k # "YAMLError")
        => load_ret.kind \in {"return", "ConfigError"}

----------------------------------------------------------------------------
\* SpecContext: lines 168-171 of load_prompt_config, the profile is loaded
\* and build_template_context is called on it.

InitContext ==
    /\ pc = "start"
    /\ IdlePath
    /\ IdleParse
    /\ IdleRun
    /\ now = 0
    /\ context = NotCalled
    /\ load_ret = NotCalled
    /\ environ \in Environs
    /\ raw_yaml = <<>>
    /\ path = DailyPath
    /\ path_state = "ok"
    /\ profile \in {NoFile}
                    \cup {File(ProfilePath, "ok", x) : x \in ProfileTexts(MaxProfileLen)}
                    \cup {File(ProfilePath, st, <<>>) : st \in {"missing", "unreadable"}}

BuildContext ==
    /\ pc = "start"
    /\ \E t \in Clock :
          /\ now' = t
          /\ context' = IF ProfileRet.kind # "return" THEN ProfileRet
                        ELSE build_template_context(ProfileRet.value, environ, t)
    /\ pc' = "done"
    /\ UNCHANGED <<path, path_state, raw_yaml, profile, environ, load_ret>>
    /\ UNCHANGED <<pathVars, parseVars, runVars>>

NextContext == BuildContext
SpecContext == InitContext /\ [][NextContext]_vars

\* The profile document is a mapping (or there is none, or it is empty).
ProfileData == ProfileRet.value
ProfileIsMapping == ProfileRet.kind = "return" /\ ProfileData.k \in {"map", "null"}
ProfileKeys == IF ProfileData.k = "map" THEN DOMAIN ProfileData.v ELSE {}

----------------------------------------------------------------------------
\* SpecPath: resolve_prompt_path, called again on the path it returned, and
\* list_prompts, over the filesystems of the bounds.

PromptFiles == {Comp("a", ".yml"), Comp("a", ".yaml"), Comp("b", ".yaml")}
CwdFiles == {Comp("a", "")}

\* What an ancestor has under the name "prompts".
LevelStates ==
    {[kind |-> "absent", content |-> {}], [kind |-> "file", content |-> {}]}
        \cup {[kind |-> "dir", content |-> c] : c \in SUBSET PromptFiles}

Level(i) == SubSeq(Cwd.parts, 1, i)
PromptsAt(i) == Append(Level(i), PromptsName)

FilesOf(layout, cwd_entries) ==
    [dirs |-> {Level(i) : i \in 0..MaxDepth}
                \cup {PromptsAt(i) : i \in {j \in 0..MaxDepth : layout[j].kind = "dir"}},
     files |-> {PromptsAt(i) : i \in {j \in 0..MaxDepth : layout[j].kind = "file"}}
                \cup UNION {{Append(PromptsAt(i), c) : c \in layout[i].content} :
                              i \in 0..MaxDepth}
                \cup {Append(Cwd.parts, c) : c \in cwd_entries}]

PromptNames ==
    {RelPath(<<Comp("a", "")>>), RelPath(<<Comp("b", "")>>),
     RelPath(<<Comp("a", ".yml")>>), RelPath(<<Comp("a", ".txt")>>),
     RelPath(<<PromptsName, Comp("a", ".yml")>>),
     RelPath(<<Dot, Comp("a", "")>>), RelPath(<<PromptsName>>)}

PromptsDirs == {None, Some(RelPath(<<PromptsName>>)), Some(RelPath(<<Comp("other", "")>>))}

InitPath ==
    /\ pc = "start"
    /\ IdleLoad
    /\ IdleParse
    /\ IdleRun
    /\ \E layout \in [0..MaxDepth -> LevelStates], cwd_entries \in SUBSET CwdFiles :
          fs = FilesOf(layout, cwd_entries)
    /\ name_arg \in PromptNames
    /\ dir_arg \in PromptsDirs
    /\ resolve_ret = NotCalled
    /\ again_ret = NotCalled
    /\ list_ret = NotCalled

Resolve ==
    /\ pc = "start"
    /\ resolve_ret' = resolve_prompt_path(name_arg, dir_arg, fs)
    /\ pc' = "resolved"
    /\ UNCHANGED <<fs, name_arg, dir_arg, again_ret, list_ret>>
    /\ UNCHANGED <<loadVars, parseVars, runVars>>

ResolveAgain ==
    /\ pc = "resolved"
    /\ resolve_ret.kind = "return"
    /\ again_ret' = resolve_prompt_path(StrOf(resolve_ret.value), dir_arg, fs)
    /\ pc' = "again"
    /\ UNCHANGED <<fs, name_arg, dir_arg, resolve_ret, list_ret>>
    /\ UNCHANGED <<loadVars, parseVars, runVars>>

ListPrompts ==
    /\ pc = "start"
    /\ list_ret' = list_prompts(dir_arg, fs)
    /\ pc' = "listed"
    /\ UNCHANGED <<fs, name_arg, dir_arg, resolve_ret, again_ret>>
    /\ UNCHANGED <<loadVars, parseVars, runVars>>

NextPath == Resolve \/ ResolveAgain \/ ListPrompts
SpecPath == InitPath /\ [][NextPath]_vars

Resolved == pc \in {"resolved", "again"}
InputPath == PathOf(name_arg)
InputExists == Exists(fs, InputPath)
HasYamlSuffix == Suffix(InputPath) \in {".yml", ".yaml"}

\* C6: resolving the path that resolve_prompt_path returned returns that same
\* path, and an input that is an existing filesystem entry is returned as it
\* is, whatever the prompts directories hold.
C6_ResolveIdempotent ==
    /\ pc = "again" => (again_ret.kind = "return" /\ again_ret.value = resolve_ret.value)
    /\ (Resolved /\ InputExists)
          => (resolve_ret.kind = "return" /\ resolve_ret.value = InputPath)

\* A bare name found by the search has been resolved again.
C6_Witness ==
    /\ pc = "again"
    /\ resolve_ret.value # InputPath

\* The nearest ancestor (the working directory first) with a directory named
\* "prompts", stated from the filesystem.
PromptsLevels == {i \in 0..MaxDepth : PromptsAt(i) \in fs.dirs}
SearchDir ==
    IF dir_arg.some THEN dir_arg
    ELSE IF PromptsLevels = {} THEN None
    ELSE Some(AbsPath(PromptsAt(Max(PromptsLevels))))
InDir(ext) == Join(SearchDir.p, WithExt(name_arg, ext))

\* C7: an input with a .yml/.yaml extension that does not exist fails with
\* not-found, whatever the prompts directories hold; a bare name (no such
\* extension, no entry at that location) is looked up in the nearest ancestor
\* "prompts" directory, <name>.yml before <name>.yaml; with neither it fails
\* with not-found naming that directory, with no prompts directory at all it
\* fails with no-prompts-directory.
C7_ResolveByCase ==
    Resolved =>
        /\ (HasYamlSuffix /\ ~InputExists)
              => resolve_ret = Raised("ConfigError", "Prompt file not found", InputPath)
        /\ (~HasYamlSuffix /\ ~InputExists) =>
              IF ~SearchDir.some
              THEN resolve_ret = Raised("ConfigError", "no prompts directory found", NoPath)
              ELSE IF Exists(fs, InDir(".yml"))
              THEN resolve_ret.kind = "return" /\ resolve_ret.value = InDir(".yml")
              ELSE IF Exists(fs, InDir(".yaml"))
              THEN resolve_ret.kind = "return" /\ resolve_ret.value = InDir(".yaml")
              ELSE resolve_ret = Raised("ConfigError", "not found in", SearchDir.p)

\* Both extensions exist in the nearest prompts directory, and a farther
\* ancestor has a prompts directory too.
C7_Witness ==
    /\ Resolved
    /\ ~dir_arg.some
    /\ ~HasYamlSuffix /\ ~InputExists
    /\ Cardinality(PromptsLevels) > 1
    /\ Exists(fs, InDir(".yml")) /\ Exists(fs, InDir(".yaml"))
    /\ \E i \in PromptsLevels : Append(PromptsAt(i), Comp("a", ".yml")) \notin fs.files

\* The entries of the searched directory with an accepted extension.
Listed ==
    IF ~SearchDir.some THEN {}
    ELSE {e[Len(e)].stem :
            e \in {f \in fs.dirs \cup fs.files :
                      /\ Len(f) = Len(Absolute(SearchDir.p)) + 1
                      /\ SubSeq(f, 1, Len(f) - 1) = Absolute(SearchDir.p)
                      /\ f[Len(f)].suffix \in {".yml", ".yaml"}}}

\* C8: list_prompts never raises; it returns the base names of the .yml and
\* .yaml entries of the prompts directory, each once, in increasing order;
\* with no prompts directory, or a supplied directory that does not exist,
\* it returns the empty list.
C8_ListSortedDistinct ==
    pc = "listed" =>
        /\ list_ret.kind = "return"
        /\ Range(list_ret.value) = Listed
        /\ \A i, j \in 1..Len(list_ret.value) :
              i < j => Rank(list_ret.value[i]) < Rank(list_ret.value[j])
        /\ (~SearchDir.some \/ ~Exists(fs, SearchDir.p)) => list_ret.value = <<>>

\* A name with both extensions and another name are listed.
C8_Witness ==
    /\ pc = "listed"
    /\ list_ret.value = <<"a", "b">>
    /\ {Append(Absolute(SearchDir.p), c) : c \in PromptFiles} \subseteq fs.files

----------------------------------------------------------------------------
\* SpecParse: one call of _parse_response on a payload of the bounds.

NoUsageCounters == [input_tokens |-> MissingInt, output_tokens |-> MissingInt,
                    total_tokens |-> MissingInt]
Usages ==
    {[state |-> "absent"] @@ NoUsageCounters, [state |-> "none"] @@ NoUsageCounters,
     [state |-> "set", input_tokens |-> Has(3), output_tokens |-> Has(4),
      total_tokens |-> Has(7)],
     [state |-> "set", input_tokens |-> Has(3), output_tokens |-> MissingInt,
      total_tokens |-> Has(3)]}

Blocks == {[type |-> "output_text", text |-> <<"Hello">>],
           [type |-> "output_text", text |-> <<"world">>],
           [type |-> "refusal", text |-> <<"no">>]}
BlockSeqs == UNION {[1..n -> Blocks] : n \in 0..MaxBlocks}

SearchResults == {[title |-> Has("T"), url |-> Has("U"), snippet |-> Has("S")],
                  [title |-> Missing, url |-> Has("U"), snippet |-> Has("S")],
                  [title |-> Missing, url |-> Missing, snippet |-> Missing]}
ResultSeqs == UNION {[1..n -> SearchResults] : n \in 0..MaxResults}

Item(type, content, results) == [type |-> type, content |-> content, results |-> results]
NoResults == [has |-> FALSE, v |-> <<>>]
OneResult == [has |-> TRUE,
              v |-> <<[title |-> Has("T"), url |-> Has("U"), snippet |-> Has("S")]>>]
OneBlock == <<[type |-> "output_text", text |-> <<"Hello">>]>>
Items ==
    {Item("message", c, NoResults) : c \in BlockSeqs}
        \cup {Item("web_search_result", <<>>, [has |-> TRUE, v |-> r]) : r \in ResultSeqs}
        \cup {Item("web_search_result", <<>>, NoResults)}
        \cup {Item("web_search_call", <<>>, r) : r \in {NoResults, OneResult}}
        \cup {Item("reasoning", c, NoResults) : c \in {<<>>, OneBlock}}
Outputs == UNION {[1..n -> Items] : n \in 0..MaxItems}

InitParse ==
    /\ pc = "start"
    /\ IdleLoad
    /\ IdlePath
    /\ IdleRun
    /\ response \in [output : Outputs, usage : Usages, model : {"gpt-4o"}]
    /\ parse_ret = NotCalled

ParseResponse ==
    /\ pc = "start"
    /\ parse_ret' = parse_response(response)
    /\ pc' = "parsed"
    /\ UNCHANGED <<response, loadVars, pathVars, runVars>>

NextParse == ParseResponse
SpecParse == InitParse /\ [][NextParse]_vars

NoItems == response.output = <<>>
LacksUsage == response.usage.state # "set"

\* C9 as stated: every payload with zero output items parses, without an
\* error, to empty content, empty citations and empty usage; and a payload
\* that lacks a usage section parses to an empty usage mapping.
C9_ZeroItemsAllEmpty ==
    pc = "parsed" =>
        /\ NoItems => /\ parse_ret.kind = "return"
                      /\ parse_ret.value.content = <<>>
                      /\ parse_ret.value.web_search_results = <<>>
                      /\ parse_ret.value.usage = <<>>
        /\ LacksUsage => (parse_ret.kind = "return" /\ parse_ret.value.usage = <<>>)

\* C9, amended: every payload with zero output items parses, without an
\* error, to empty content and empty citations; the usage mapping is empty
\* exactly when the payload lacks a usage section, and otherwise it holds the
\* three counters of the payload, a missing counter read as 0.
C9_ZeroItemsDefensive ==
    pc = "parsed" =>
        /\ parse_ret.kind = "return"
        /\ NoItems => /\ parse_ret.value.content = <<>>
                      /\ parse_ret.value.web_search_results = <<>>
        /\ LacksUsage => parse_ret.value.usage = <<>>
        /\ ~LacksUsage =>
              /\ DOMAIN parse_ret.value.usage
                    = {"prompt_tokens", "completion_tokens", "total_tokens"}
              /\ parse_ret.value.usage["prompt_tokens"]
                    = (IF response.usage.input_tokens.has
                       THEN response.usage.input_tokens.v ELSE 0)
              /\ parse_ret.value.usage["completion_tokens"]
                    = (IF response.usage.output_tokens.has
                       THEN response.usage.output_tokens.v ELSE 0)
              /\ parse_ret.value.usage["total_tokens"]
                    = (IF response.usage.total_tokens.has
                       THEN response.usage.total_tokens.v ELSE 0)

\* A payload with no output item and with usage counters has been parsed.
C9_Witness ==
    /\ pc = "parsed"
    /\ NoItems
    /\ ~LacksUsage
    /\ parse_ret.kind = "return"
    /\ parse_ret.value.content = <<>>

\* The text fragments of the payload, by position: fragment j of item i
\* counts when the item is a message and the fragment an output_text.
Fragments ==
    {<<i, j>> \in (1..Len(response.output)) \X (1..MaxBlocks + 1) :
        /\ response.output[i].type = "message"
        /\ j <= Len(response.output[i].content)
        /\ response.output[i].content[j].type = "output_text"}
Before(a, b) == a[1] < b[1] \/ (a[1] = b[1] /\ a[2] < b[2])
RECURSIVE InOrder(_)
InOrder(S) ==
    IF S = {} THEN <<>>
    ELSE LET last == CHOOSE a \in S : \A b \in S \ {a} : Before(b, a)
         IN InOrder(S \ {last}) \o response.output[last[1]].content[last[2]].text

\* The results of the web_search_result items, by position.
Cited ==
    {<<i, j>> \in (1..Len(response.output)) \X (1..MaxResults + 1) :
        /\ response.output[i].type = "web_search_result"
        /\ response.output[i].results.has
        /\ j <= Len(response.output[i].results.v)}
FieldOrEmpty(attr) == IF attr.has THEN attr.v ELSE ""
RECURSIVE CitedInOrder(_)
CitedInOrder(S) ==
    IF S = {} THEN <<>>
    ELSE LET last == CHOOSE a \in S : \A b \in S \ {a} : Before(b, a)
             r == response.output[last[1]].results.v[last[2]]
         IN Append(CitedInOrder(S \ {last}),
                   [title |-> FieldOrEmpty(r.title), url |-> FieldOrEmpty(r.url),
                    snippet |-> FieldOrEmpty(r.snippet)])

\* C10: the content is the concatenation, in payload order, of the
\* output_text fragments of the message items and of nothing else; no item
\* type raises an error; the citations are the results of the
\* web_search_result items in payload order, a missing title, url or snippet
\* read as the empty string.
C10_ContentIsMessageText ==
    pc = "parsed" =>
        /\ parse_ret.kind = "return"
        /\ parse_ret.value.content = InOrder(Fragments)
        /\ parse_ret.value.web_search_results = CitedInOrder(Cited)

\* Two items carry text and only one is a message; a result lacks its title.
C10_Witness ==
    /\ pc = "parsed"
    /\ \E i, j \in 1..Len(response.output) :
          /\ response.output[i].type = "message"
          /\ response.output[i].content # <<>>
          /\ response.output[i].content[1].type = "output_text"
          /\ response.output[j].type = "reasoning"
          /\ response.output[j].content # <<>>
    /\ parse_ret.value.content # <<>>


----------------------------------------------------------------------------
\* rendering.py and cli.py: the run and validate commands.

\* markdown_to_html on a text of words: the converted paragraph inside the
\* template.
markdown_to_html(content) ==
    <<"<!DOCTYPE html>", "<body>", "<p style>">> \o content \o <<"</p>", "</body>">>

ONE_OFF_DELIVERY_INSTRUCTIONS == <<"\n", "IMPORTANT:", "one-off", "automated", "delivery">>

\* str.strip() on a text whose blanks are atoms of their own.
Strip(text) == SelectSeq(text, LAMBDA w : w # "\n")

\* Lines 95-98 (and 69-72): the system prompt sent with the prompt.
EffectiveSystemPrompt(config) ==
    IF Truthy(config.system_prompt)
    THEN StrVal(config.system_prompt.v \o ONE_OFF_DELIVERY_INSTRUCTIONS)
    ELSE StrVal(Strip(ONE_OFF_DELIVERY_INSTRUCTIONS))

\* One thing the command did.
Event(ev, arg) == [ev |-> ev, arg |-> arg]
Echo(line, arg) == [ev |-> "echo", line |-> line, arg |-> arg]

\* Lines 124-132: the except clause of run that catches the exception, and
\* "uncaught" when none does.
Handler(exc) ==
    IF IsInstance(exc, "ConfigError") THEN "Configuration error"
    ELSE IF IsInstance(exc, "LLMError") THEN "LLM error"
    ELSE IF IsInstance(exc, "DeliveryError") THEN "Delivery error"
    ELSE "uncaught"

\* Lines 183-185: validate catches ConfigError only.
ValidateHandler(exc) ==
    IF IsInstance(exc, "ConfigError") THEN "Invalid configuration" ELSE "uncaught"

\* Lines 59-60: load the file that resolve_prompt_path found; its exception
\* leaves the try block before load_prompt_config is called.
LoadResolved(resolved, state, text, prof, env, t) ==
    IF resolved.kind # "return" THEN resolved
    ELSE load_prompt_config(File(resolved.value, state, text), prof, env, t)

IsStr(val, word) == val.k = "str" /\ val.v = <<word>>

\* Lines 82-92: the LLMConfig and the provider selected by name.
SelectProvider(config, env) ==
    IF IsStr(config.llm.provider, "openai")
    THEN OpenAIProvider(LLMConfig(config.llm.model, config.llm.temperature,
                                  config.llm.max_tokens, config.llm.enable_web_search),
                        env)
    ELSE Raised("ConfigError", "Unknown LLM provider", NoPath)

\* (mutation) the provider name is not looked at.
SelectDeliveryProvider_anyname(config, env) ==
    LET sender == EnvGet(env, "GMAIL_SENDER")
        app_password == EnvGet(env, "GMAIL_APP_PASSWORD")
    IN IF ~Truthy(sender) \/ ~Truthy(app_password)
       THEN Raised("ConfigError", "Email delivery requires GMAIL_SENDER and GMAIL_APP_PASSWORD",
                   NoPath)
       ELSE Returned(EmailDeliveryProvider(sender, app_password,
                                           DeliveryConfig(config.delivery.recipients,
                                                          config.delivery.subject)))

\* Lines 137-157 of _deliver_response: the provider selected by name, from
\* the two environment variables.
SelectDeliveryProvider(config, env) ==
    LET sender == EnvGet(env, "GMAIL_SENDER")
        app_password == EnvGet(env, "GMAIL_APP_PASSWORD")
        subject == IF Truthy(config.delivery.subject) THEN config.delivery.subject
                   ELSE StrVal(<<"Prompt Runner:">> \o config.name.v)
    IN IF ~IsStr(config.delivery.provider, "email")
       THEN Raised("ConfigError", "Unknown delivery provider", NoPath)
       ELSE IF ~Truthy(sender) \/ ~Truthy(app_password)
       THEN Raised("ConfigError", "Email delivery requires GMAIL_SENDER and GMAIL_APP_PASSWORD",
                   NoPath)
       ELSE Returned(EmailDeliveryProvider(sender, app_password,
                                           DeliveryConfig(config.delivery.recipients, subject)))

\* Lines 160-162: deliver, and a result without success raised as an error.
CheckResult(result) ==
    IF result.kind # "return" THEN result
    ELSE IF ~result.value.success THEN Raised("DeliveryError", "Delivery failed", NoPath)
    ELSE result

DeliverAndCheck(self, content, answer) ==
    CheckResult(deliver(self, content, markdown_to_html(content), answer))

----------------------------------------------------------------------------
\* SpecRun: the run and validate commands on the documents, environments,
\* options and backend answers of the bounds.

RunPrompt == {<<"prompt:", "hi">>, <<>>}
RunLlm == {<<>>, <<"llm:">>, <<"llm:", "  provider:", "anthropic">>,
           <<"llm:", "  temperature:", "5">>, <<"llm:", "  model:", "''">>,
           <<"llm:", "  max_tokens:", "0">>}
RunDelivery == {<<>>, <<"delivery:", "  recipients:", "[a@example.com]">>,
                <<"delivery:", "  recipients:", "[a@example.com, b@example.com]">>,
                <<"delivery:", "  recipients:", "[a@example.com]", "  provider:", "slack">>,
                <<"delivery:", "  provider:", "slack">>}
Text(atoms) == [i \in DOMAIN atoms |-> Lit(atoms[i])]
RunDocs == {Text(<<"prompt:", "hi">> \o l \o d) : l \in RunLlm, d \in RunDelivery}
                \cup {Text(<<>>), Text(<<"system_prompt:", "brief", "prompt:", "hi">>)}

\* App passwords, as texts of characters.
GoodPassword == [i \in 1..AppPasswordLen |-> "x"]
SpacedPassword == [i \in 1..(AppPasswordLen + 3) |-> IF i % 5 = 0 THEN " " ELSE "x"]
ShortPassword == [i \in 1..(AppPasswordLen - 1) |-> "x"]
BlankPassword == <<" ", " ">>

ValidKey == StrVal(<<"sk-valid">>)
KeyEnvirons == {<<>>, [OPENAI_API_KEY |-> StrVal(<<>>)],
                [OPENAI_API_KEY |-> StrVal(<<"sk-wrong">>)], [OPENAI_API_KEY |-> ValidKey]}
MailEnvirons ==
    {[GMAIL_APP_PASSWORD |-> StrVal(GoodPassword)]}
        \cup {[GMAIL_SENDER |-> StrVal(<<"me@gmail.com">>)]}
        \cup {[GMAIL_SENDER |-> StrVal(<<"me@gmail.com">>), GMAIL_APP_PASSWORD |-> StrVal(pw)] :
                pw \in {GoodPassword, SpacedPassword, ShortPassword, BlankPassword}}
RunEnvirons == {k @@ m : k \in KeyEnvirons, m \in MailEnvirons}

Argvs ==
    {[cmd |-> "validate", dry_run |-> FALSE, no_deliver |-> FALSE, output |-> "none"]}
        \cup [cmd : {"run"}, dry_run : BOOLEAN, no_deliver : BOOLEAN,
              output : {"none", "ok", "unwritable"}]

\* The directory tree with and without prompts/a.yml next to the working
\* directory.
RunFilesystems ==
    {FilesOf([i \in 0..MaxDepth |-> [kind |-> "absent", content |-> {}]], {}),
     FilesOf([i \in 0..MaxDepth |->
                IF i = MaxDepth THEN [kind |-> "dir", content |-> {Comp("a", ".yml")}]
                ELSE [kind |-> "absent", content |-> {}]], {})}

RunPayloads ==
    {[output |-> <<>>, usage |-> [state |-> "absent"] @@ NoUsageCounters, model |-> "gpt-4o"],
     [output |-> <<Item("message", OneBlock, NoResults)>>,
      usage |-> [state |-> "set", input_tokens |-> Has(3), output_tokens |-> Has(4),
                 total_tokens |-> Has(7)],
      model |-> "gpt-4o"]}

\* What the backend may answer to a request made with the key.
Answers(api_key) ==
    {Failed("APIConnectionError", MissingInt), Failed("APITimeoutError", MissingInt)}
        \cup (IF api_key = ValidKey
              THEN {Answered(r) : r \in RunPayloads}
                      \cup {Failed("RateLimitError", Has(429)),
                            Failed("InternalServerError", Has(500)),
                            Failed("APIError", MissingInt)}
              ELSE {Failed("AuthenticationError", Has(401))})

\* What the server may answer to a session opened with the password.
SmtpAnswers(app_password) ==
    {SmtpFailed("SMTP", e) : e \in {"SMTPConnectError", "gaierror", "SMTPServerDisconnected"}}
        \cup {SmtpFailed("starttls", e) : e \in {"SSLError", "SMTPResponseException"}}
        \cup (IF app_password = StrVal(GoodPassword)
              THEN {SmtpOk}
                      \cup {SmtpFailed("send_message", e) :
                              e \in {"SMTPRecipientsRefused", "SMTPServerDisconnected", "OSError"}}
              ELSE {SmtpFailed("login", "SMTPAuthenticationError")})

InitRun ==
    /\ pc = "start"
    /\ IdleParse
    /\ argv \in Argvs
    /\ fs \in RunFilesystems
    /\ name_arg = RelPath(<<Comp("a", "")>>)
    /\ dir_arg = None
    /\ resolve_ret = NotCalled
    /\ again_ret = NotCalled
    /\ list_ret = NotCalled
    /\ path = NoPath
    /\ path_state = "ok"
    /\ raw_yaml \in RunDocs
    /\ profile = NoFile
    /\ environ \in RunEnvirons
    /\ now = 0
    /\ context = NotCalled
    /\ load_ret = NotCalled
    /\ provider = [constructed |-> FALSE]
    /\ llm_ret = NotCalled
    /\ mailer = [constructed |-> FALSE]
    /\ deliver_ret = NotCalled
    /\ trace = <<>>
    /\ status = "running"

\* An exception leaves the try block: the handler echoes it and exits.
Abort(raised, handler, before) ==
    /\ trace' = trace \o before \o <<[ev |-> "err", arg |-> handler, exc |-> raised.kind,
                                         msg |-> raised.msg]>>
    /\ status' = handler
    /\ pc' = "exit"

\* Lines 58-65: resolve, load, and the first lines echoed.
RunLoad ==
    /\ pc = "start"
    /\ argv.cmd = "run"
    /\ \E t \in Clock, resolved \in {resolve_prompt_path(name_arg, None, fs)} :
          \E loaded \in {LoadResolved(resolved, path_state, raw_yaml, profile, environ, t)} :
             /\ now' = t
             /\ resolve_ret' = resolved
             /\ load_ret' = IF resolved.kind # "return" THEN NotCalled ELSE loaded
             /\ path' = IF resolved.kind # "return" THEN NoPath ELSE resolved.value
             /\ IF loaded.kind # "return" THEN Abort(loaded, Handler(loaded.kind), <<>>)
                ELSE /\ trace' = trace \o <<Echo("Prompt:", loaded.value.name),
                                            Echo("Model:", loaded.value.llm.model)>>
                                       \o (IF Truthy(loaded.value.llm.enable_web_search)
                                           THEN <<Echo("Web search: enabled", Null)>> ELSE <<>>)
                     /\ pc' = "loaded"
                     /\ status' = status
    /\ UNCHANGED <<path_state, raw_yaml, profile, environ, context>>
    /\ UNCHANGED <<fs, name_arg, dir_arg, again_ret, list_ret>>
    /\ UNCHANGED <<parseVars, argv, provider, llm_ret, mailer, deliver_ret>>

\* Lines 67-79.
DryRun ==
    /\ pc = "loaded"
    /\ argv.dry_run
    /\ trace' = trace \o <<Echo("--- Dry Run Mode ---", Null),
                           Echo("System prompt:", EffectiveSystemPrompt(load_ret.value)),
                           Echo("Prompt:", load_ret.value.prompt)>>
                      \o (IF Truthy(load_ret.value.delivery.recipients)
                          THEN <<Echo("Would deliver to:", load_ret.value.delivery.recipients)>>
                          ELSE <<>>)
    /\ status' = "ok"
    /\ pc' = "exit"
    /\ UNCHANGED <<loadVars, pathVars, parseVars, argv, provider, llm_ret, mailer, deliver_ret>>

\* Lines 81-92.
CreateProvider ==
    /\ pc = "loaded"
    /\ ~argv.dry_run
    /\ \E made \in {SelectProvider(load_ret.value, environ)} :
          IF made.kind # "return"
          THEN /\ Abort(made, Handler(made.kind), <<>>)
               /\ provider' = provider
          ELSE /\ provider' = made.value
               /\ trace' = Append(trace, Event("OpenAI", made.value.api_key))
               /\ pc' = "provider"
               /\ status' = status
    /\ UNCHANGED <<loadVars, pathVars, parseVars, argv, llm_ret, mailer, deliver_ret>>

\* Lines 94-107: the request goes out and the backend answers.
CallLLM ==
    /\ pc = "provider"
    /\ \E answer \in Answers(provider.api_key),
          system_prompt \in {EffectiveSystemPrompt(load_ret.value)} :
          \E ret \in {complete(provider, load_ret.value.prompt, system_prompt, answer)},
             request \in {<<Echo("Calling LLM...", Null),
                            [ev |-> "responses.create",
                             arg |-> build_request_params(provider.config,
                                                          load_ret.value.prompt,
                                                          system_prompt),
                             raised |-> answer.exc,
                             status_code |-> answer.status_code]>>} :
             /\ llm_ret' = ret
             /\ response' = answer.response
             /\ IF ret.kind # "return" THEN Abort(ret, Handler(ret.kind), request)
                ELSE /\ trace' = trace \o request
                                    \o <<Echo("Response received",
                                              IF "total_tokens" \in DOMAIN ret.value.usage
                                              THEN Has(ret.value.usage["total_tokens"])
                                              ELSE Has("?"))>>
                                    \o (IF ret.value.web_search_results # <<>>
                                        THEN <<Echo("Web search:", Null)>> ELSE <<>>)
                     /\ pc' = "completed"
                     /\ status' = status
    /\ UNCHANGED <<loadVars, pathVars, parse_ret, argv, provider, mailer, deliver_ret>>

\* (mutation) the response is printed also when it is written to a file.
OutputEvents_tee(output, content) ==
    (IF output = "none" THEN <<>>
     ELSE <<Event("write", content), Echo("Response written to:", Null)>>)
        \o <<Echo("--- Response ---", Null), Echo("content", content)>>

\* Lines 110-116: the response goes to the file or to the terminal.
OutputEvents(output, content) ==
    IF output = "none"
    THEN <<Echo("--- Response ---", Null), Echo("content", content)>>
    ELSE <<Event("write", content), Echo("Response written to:", Null)>>

\* Lines 109-116; open() raises OSError on a file that cannot be written.
Output ==
    /\ pc = "completed"
    /\ IF argv.output = "unwritable"
       THEN Abort(Raised("OSError", "open", NoPath), Handler("OSError"), <<>>)
       ELSE /\ trace' = trace \o OutputEvents(argv.output, llm_ret.value.content)
            /\ pc' = "emitted"
            /\ status' = status
    /\ UNCHANGED <<loadVars, pathVars, parseVars, argv, provider, llm_ret, mailer, deliver_ret>>

\* (mutation) --no-deliver is ignored.
ShouldDeliver_ignoreflag(no_deliver, config) == Truthy(config.delivery.recipients)

\* Line 119: `not no_deliver and config.delivery.recipients`.
ShouldDeliver(no_deliver, config) ==
    ~no_deliver /\ Truthy(config.delivery.recipients)

\* Line 119, the condition false: the command returns.
SkipDelivery ==
    /\ pc = "emitted"
    /\ ~ShouldDeliver(argv.no_deliver, load_ret.value)
    /\ status' = "ok"
    /\ pc' = "exit"
    /\ UNCHANGED <<loadVars, pathVars, parseVars, argv, provider, llm_ret, mailer,
                   deliver_ret, trace>>

\* Lines 119-121 and 137-157.
SelectDelivery ==
    /\ pc = "emitted"
    /\ ShouldDeliver(argv.no_deliver, load_ret.value)
    /\ \E made \in {SelectDeliveryProvider(load_ret.value, environ)} :
          IF made.kind # "return"
          THEN /\ Abort(made, Handler(made.kind), <<Echo("Delivering response...", Null)>>)
               /\ mailer' = mailer
          ELSE /\ mailer' = made.value
               /\ trace' = trace \o <<Echo("Delivering response...", Null),
                                       Event("EmailDeliveryProvider", Null)>>
               /\ pc' = "mailer"
               /\ status' = status
    /\ UNCHANGED <<loadVars, pathVars, parseVars, argv, provider, llm_ret, deliver_ret>>

\* Lines 159-162 and 122: the session with the SMTP server.
Deliver ==
    /\ pc = "mailer"
    /\ \E answer \in SmtpAnswers(mailer.app_password) :
          \E ret \in {DeliverAndCheck(mailer, llm_ret.value.content, answer)},
             calls \in {SmtpTrace(answer)} :
             /\ deliver_ret' = ret
             /\ IF ret.kind # "return" THEN Abort(ret, Handler(ret.kind), calls)
                ELSE /\ trace' = trace \o calls \o <<Echo("Delivery complete!", Null)>>
                     /\ status' = "ok"
                     /\ pc' = "exit"
    /\ UNCHANGED <<loadVars, pathVars, parseVars, argv, provider, llm_ret, mailer>>

\* Lines 170-185: the validate command.
Validate ==
    /\ pc = "start"
    /\ argv.cmd = "validate"
    /\ \E t \in Clock, resolved \in {resolve_prompt_path(name_arg, None, fs)} :
          \E loaded \in {LoadResolved(resolved, path_state, raw_yaml, profile, environ, t)} :
             /\ now' = t
             /\ resolve_ret' = resolved
             /\ load_ret' = IF resolved.kind # "return" THEN NotCalled ELSE loaded
             /\ path' = IF resolved.kind # "return" THEN NoPath ELSE resolved.value
             /\ IF loaded.kind # "return"
                THEN Abort(loaded, ValidateHandler(loaded.kind), <<>>)
                ELSE /\ trace' = trace \o <<Echo("is valid", loaded.value.name),
                                            Echo("Model:", loaded.value.llm.model),
                                            Echo("Web search:", Null),
                                            Echo("Delivery:", Null)>>
                     /\ pc' = "exit"
                     /\ status' = "ok"
    /\ UNCHANGED <<path_state, raw_yaml, profile, environ, context>>
    /\ UNCHANGED <<fs, name_arg, dir_arg, again_ret, list_ret>>
    /\ UNCHANGED <<parseVars, argv, provider, llm_ret, mailer, deliver_ret>>

NextRun ==
    \/ RunLoad \/ DryRun \/ CreateProvider \/ CallLLM \/ Output
    \/ SkipDelivery \/ SelectDelivery \/ Deliver \/ Validate
SpecRun == InitRun /\ [][NextRun]_vars


\* What a run went through, read from its state.
RunConfig == load_ret.value
Loaded == argv.cmd = "run" /\ load_ret.kind = "return"
Exited == pc = "exit"
LastEvent == trace[Len(trace)]
CompletionCalls == {i \in DOMAIN trace : trace[i].ev = "responses.create"}
SmtpEvents == {i \in DOMAIN trace : trace[i].ev \in Range(SmtpSteps)}
NetworkCalls == CompletionCalls \cup SmtpEvents
NamesRecipient == Loaded /\ Truthy(RunConfig.delivery.recipients)
ReachesConstruction ==
    Loaded /\ ~argv.dry_run /\ IsStr(RunConfig.llm.provider, "openai")
ApiKey == EnvGet(environ, "OPENAI_API_KEY")
FailedAtConstruction ==
    /\ ~provider.constructed
    /\ ~mailer.constructed
    /\ LastEvent.ev = "err"
    /\ LastEvent.exc = "LLMConfigError"
    /\ status = "LLM error"

\* C11 (as stated): in a run that names a recipient and whose completion
\* backend has no usable credential (none, an empty one, or one the backend
\* rejects), no network call is ever made and the run ends with the
\* configuration error raised when the backend is constructed.
C11_UnusableCredentialNoNetwork ==
    (NamesRecipient /\ ReachesConstruction /\ ApiKey # ValidKey)
        => /\ NetworkCalls = {}
           /\ Exited => FailedAtConstruction

\* C11 (amended): in a run that names a recipient and reaches the
\* construction of the completion backend with no credential at all
\* (OPENAI_API_KEY unset or empty), no network call is ever made and the
\* run ends with LLMConfigError raised by the constructor; a credential that
\* is present is only rejected by the backend, after a network call.
C11_MissingCredentialNoNetwork ==
    /\ (NamesRecipient /\ ReachesConstruction /\ ~Truthy(ApiKey))
          => /\ NetworkCalls = {}
             /\ Exited => FailedAtConstruction
    /\ (ReachesConstruction /\ Truthy(ApiKey) /\ ApiKey # ValidKey /\ Exited)
          => /\ CompletionCalls # {}
             /\ status = "LLM error"
             /\ LastEvent.exc = "LLMAPIError"

C11_Witness ==
    /\ Exited
    /\ NamesRecipient
    /\ ReachesConstruction
    /\ ~Truthy(ApiKey)
    /\ FailedAtConstruction


DeliveryEvents == SmtpEvents \cup {i \in DOMAIN trace : trace[i].ev = "EmailDeliveryProvider"}
Completed == Loaded /\ llm_ret.kind = "return"
Emissions ==
    {i \in DOMAIN trace : trace[i].ev = "write"
                            \/ (trace[i].ev = "echo" /\ trace[i].line = "content")}
NoDeliverySection == Parsed.k = "map" /\ "delivery" \notin DOMAIN Parsed.v

\* C12: the delivery backend is constructed and invoked only after the
\* completion succeeded, and only when the configuration names a recipient
\* and delivery was not skipped; a document without a delivery section has
\* no recipients, and a run without recipients or with delivery skipped
\* ends, once its result is emitted, without any delivery backend.
C12_DeliveryOnlyWhenConfigured ==
    /\ (DeliveryEvents # {} \/ mailer.constructed)
          => /\ Completed
             /\ \E c \in CompletionCalls : \A d \in DeliveryEvents : c < d
             /\ Truthy(RunConfig.delivery.recipients)
             /\ ~argv.no_deliver
    /\ (Loaded /\ NoDeliverySection) => ~Truthy(RunConfig.delivery.recipients)
    /\ (Exited /\ Completed /\ Emissions # {}
            /\ (argv.no_deliver \/ ~Truthy(RunConfig.delivery.recipients)))
          => /\ status = "ok"
             /\ DeliveryEvents = {}
             /\ ~mailer.constructed

C12_Witness ==
    /\ Exited
    /\ Completed
    /\ SmtpEvents # {}
    /\ status = "ok"


ErrEvents == {i \in DOMAIN trace : trace[i].ev = "err"}
LoadFailed ==
    argv.cmd = "run" /\ Exited
        /\ (resolve_ret.kind # "return" \/ load_ret.kind # "return")
SelectionFailed == Loaded /\ Exited /\ ~argv.dry_run /\ ~provider.constructed
CompletionFailed == provider.constructed /\ Exited /\ llm_ret.kind # "return"
DeliveryFailed ==
    /\ Exited
    /\ Completed
    /\ Emissions # {}
    /\ ShouldDeliver(argv.no_deliver, RunConfig)
    /\ (~mailer.constructed \/ deliver_ret.kind # "return")

\* C13: a run that fails ends at the first failing stage, in the error state
\* of that stage's domain (load: configuration; backend selection:
\* configuration or completion; completion: completion; delivery:
\* configuration or delivery), with no later stage started; a delivery
\* failure comes after the result was emitted.
C13_FailFast ==
    (argv.cmd = "run" /\ Exited) =>
        /\ status \in {"ok", "Configuration error", "LLM error", "Delivery error"}
        /\ status # "ok" => (ErrEvents = {Len(trace)})
        /\ LoadFailed => /\ status = "Configuration error"
                         /\ ~provider.constructed
                         /\ NetworkCalls = {}
        /\ SelectionFailed => /\ status \in {"Configuration error", "LLM error"}
                              /\ NetworkCalls = {}
        /\ CompletionFailed => /\ status = "LLM error"
                               /\ Emissions = {}
                               /\ DeliveryEvents = {}
        /\ DeliveryFailed => /\ status \in {"Configuration error", "Delivery error"}
                             /\ \A e \in Emissions : e < Len(trace)


\* C14: the completion backend is never called with settings that fail
\* validate_config (an empty model, a temperature outside [0, 2], a
\* max_tokens that is given and not positive).
C14_CompletionSettingsValidated ==
    CompletionCalls # {} => LLMProvider_validate_config(provider.config).kind = "return"


\* C15: deliver opens no connection for a provider that fails
\* validate_config (no recipient, no sender, no credential, or a stripped
\* credential that is not 16 characters long), and such a provider is not
\* reported as a transport failure.
C15_DeliverySettingsValidated ==
    (mailer.constructed /\ EmailDeliveryProvider_validate_config(mailer).kind # "return")
        => /\ SmtpEvents = {}
           /\ Exited => status # "Delivery error"


UnknownLLM == Loaded /\ ~IsStr(RunConfig.llm.provider, "openai")
UnknownDelivery == Loaded /\ ~IsStr(RunConfig.delivery.provider, "email")
EndsWith(exc, msg) ==
    /\ LastEvent.ev = "err"
    /\ LastEvent.exc = exc
    /\ LastEvent.msg = msg
ReachesDelivery ==
    Completed /\ Emissions # {} /\ ShouldDeliver(argv.no_deliver, RunConfig)

\* C16 (as stated): every run of the pipeline (dry runs aside) on a
\* configuration whose completion or delivery backend name is not recognized
\* fails with the unknown-backend error, before any completion call when the
\* completion name is the unknown one.
C16_UnknownBackendAlwaysFails ==
    (Exited /\ ~argv.dry_run /\ (UnknownLLM \/ UnknownDelivery))
        => /\ \/ EndsWith("ConfigError", "Unknown LLM provider")
              \/ EndsWith("ConfigError", "Unknown delivery provider")
           /\ UnknownLLM => CompletionCalls = {}

\* C16 (amended): a backend name is looked at when the run selects that
\* backend.  An unrecognized completion name fails every run that is not a
\* dry run with the unknown-backend error, before any network call.  An
\* unrecognized delivery name fails the run with the unknown-backend error
\* only when delivery is reached (the completion succeeded and was emitted,
\* a recipient is named, delivery is not skipped), before any delivery
\* backend is constructed; a run that does not reach delivery ends as it
\* would with a recognized name.
C16_UnknownBackendWhenSelected ==
    /\ (Exited /\ ~argv.dry_run /\ UnknownLLM)
          => /\ EndsWith("ConfigError", "Unknown LLM provider")
             /\ status = "Configuration error"
             /\ NetworkCalls = {}
    /\ (Exited /\ ReachesDelivery /\ UnknownDelivery)
          => /\ EndsWith("ConfigError", "Unknown delivery provider")
             /\ status = "Configuration error"
             /\ DeliveryEvents = {}
             /\ ~mailer.constructed
    /\ (Exited /\ Completed /\ Emissions # {} /\ UnknownDelivery
            /\ ~ShouldDeliver(argv.no_deliver, RunConfig))
          => status = "ok"

C16_Witness ==
    /\ Exited
    /\ ReachesDelivery
    /\ UnknownDelivery
    /\ EndsWith("ConfigError", "Unknown delivery provider")


\* The completion call of the run and the exception the backend answered
\* it with ("" for a payload).
CompletionCall == trace[CHOOSE i \in CompletionCalls : TRUE]
BackendFailed == CompletionCalls # {} /\ llm_ret.kind # "none" /\ CompletionCall.raised # ""
RateLimited == BackendFailed /\ IsInstance(CompletionCall.raised, "RateLimitError")
Unreachable == BackendFailed /\ IsInstance(CompletionCall.raised, "APIConnectionError")
OtherFailure == BackendFailed /\ ~RateLimited /\ ~Unreachable

\* C17 (as stated): a rate-limit response is raised as rate-limited with
\* the provider name and status 429, a connectivity failure as a
\* connection-error that is not an api-error, and any other failure as
\* api-error with the backend's status code, when it has one, and the
\* provider name.
C17_FailureKindsDistinct ==
    /\ RateLimited => /\ llm_ret.kind = "LLMRateLimitError"
                      /\ llm_ret.status_code = Has(429)
                      /\ llm_ret.provider = "openai"
    /\ Unreachable => /\ IsInstance(llm_ret.kind, "LLMError")
                      /\ ~IsInstance(llm_ret.kind, "LLMAPIError")
    /\ OtherFailure => /\ llm_ret.kind = "LLMAPIError"
                       /\ llm_ret.status_code = CompletionCall.status_code
                       /\ llm_ret.provider = "openai"

\* C17 (amended): a rate-limit response is raised as LLMRateLimitError with
\* the provider name and status 429; every other failure of the call is
\* raised as LLMAPIError with the provider name: a connectivity failure with
\* no status code (there is no connection-error kind of its own in the
\* completion domain), any other backend failure with the backend's status
\* code when it has one.
C17_FailureKinds ==
    /\ RateLimited => /\ llm_ret.kind = "LLMRateLimitError"
                      /\ llm_ret.status_code = Has(429)
                      /\ llm_ret.provider = "openai"
    /\ Unreachable => /\ llm_ret.kind = "LLMAPIError"
                      /\ llm_ret.msg = "Failed to connect to OpenAI API"
                      /\ llm_ret.status_code = MissingInt
                      /\ llm_ret.provider = "openai"
    /\ OtherFailure => /\ llm_ret.kind = "LLMAPIError"
                       /\ llm_ret.msg = "OpenAI API error"
                       /\ llm_ret.status_code = CompletionCall.status_code
                       /\ llm_ret.provider = "openai"
    /\ BackendFailed => (Exited /\ status = "LLM error")

C17_Witness ==
    /\ Unreachable
    /\ CompletionCall.raised = "APITimeoutError"
    /\ llm_ret.kind = "LLMAPIError"


\* The SMTP call that failed in the session of the run, if one did.
FailedSmtpCalls == {i \in SmtpEvents : trace[i].raised # ""}
SmtpRaised == trace[CHOOSE i \in FailedSmtpCalls : TRUE].raised
Delivered == deliver_ret.kind = "return"
StepsDone == {trace[i].ev : i \in {j \in SmtpEvents : trace[j].raised = ""}}

\* C18: a failure of the session is raised as one delivery error, by the
\* most specific class of what the transport raised: an authentication
\* failure as auth-error, a refused connection as connection-error, any
\* other SMTP failure as delivery-error, any other network failure as
\* connection-error; and a successful result, counting the recipients, is
\* returned only when all four steps succeeded.
C18_DeliveryFailureKinds ==
    /\ FailedSmtpCalls # {} =>
          /\ Cardinality(FailedSmtpCalls) = 1
          /\ deliver_ret.kind =
                (IF IsInstance(SmtpRaised, "SMTPAuthenticationError") THEN "DeliveryAuthError"
                 ELSE IF IsInstance(SmtpRaised, "SMTPConnectError")
                 THEN "DeliveryConnectionError"
                 ELSE IF IsInstance(SmtpRaised, "SMTPException") THEN "DeliveryError"
                 ELSE "DeliveryConnectionError")
          /\ status = "Delivery error"
    /\ Delivered =>
          /\ FailedSmtpCalls = {}
          /\ StepsDone = Range(SmtpSteps)
          /\ deliver_ret.value.success
          /\ deliver_ret.value.recipients_count = Len(RunConfig.delivery.recipients.v)
    /\ (mailer.constructed /\ Exited) => (Delivered <=> FailedSmtpCalls = {})

C18_Witness ==
    /\ Exited
    /\ FailedSmtpCalls # {}
    /\ SmtpRaised = "SMTPAuthenticationError"
    /\ deliver_ret.kind = "DeliveryAuthError"


ToFile == argv.cmd = "run" /\ argv.output # "none"
Written == {i \in DOMAIN trace : trace[i].ev = "write"}
Printed == {i \in DOMAIN trace : trace[i].ev = "echo" /\ trace[i].line = "content"}
DeliveryStarted ==
    \E i \in DOMAIN trace : trace[i].ev = "echo" /\ trace[i].line = "Delivering response..."

ValidationOnly == argv.cmd = "validate" \/ (argv.cmd = "run" /\ argv.dry_run)
BackendsConstructed ==
    {i \in DOMAIN trace : trace[i].ev \in {"OpenAI", "EmailDeliveryProvider"}}

\* C20: the validate command and a dry run construct no backend, make no
\* network call, and end either in success or in a configuration error.
C20_ValidationInvokesNoBackend ==
    ValidationOnly =>
        /\ ~provider.constructed
        /\ ~mailer.constructed
        /\ BackendsConstructed = {}
        /\ NetworkCalls = {}
        /\ Exited => status \in {"ok", "Configuration error", "Invalid configuration"}

====
